---- MODULE Spec2Model ----
(***************************************************************************)
(* Model of python-aapclient's reference resolution and of its             *)
(* organization merger.  A behaviour is one command invocation against a   *)
(* remote service: Init chooses what the service holds and which remote    *)
(* call is going to fail, one action runs one take_action() to its end.    *)
(* SpecConfig follows the shell before the command: configuration from the *)
(* environment and the options, validation, and the clients' construction. *)
(***************************************************************************)
EXTENDS Integers, Sequences, FiniteSets, TLC

\* ------------------------------------------------------------------ bounds
MaxId == 2
MaxTokens == 3
MaxCount == 1
MaxHostLen == 3
MaxRequests == 1

\* AAP_TIMEOUT's default, in seconds.
DefaultTimeout == 30

\* ------------------------------------------------------------ value spaces
\* Ids the remote service hands out, and ids a user can type after --id
\* (argparse type=int accepts 0).
RecIds == 1..MaxId
ArgIds == 0..MaxId
\* The service's id space: one more id is free for a record created later.
StoreIds == 1..(MaxId + 1)

\* Resource names (usernames); "1" is a name made of digits only.
Names == {"a", "b", "1"}
NoRec == "<none>"

\* An optional argument is the empty set (None) or a singleton.
None == {}
Opt(S) == {None} \cup {{x} : x \in S}
Val(o) == CHOOSE x \in o : TRUE

\* Python truthiness of an optional int / an optional non-empty string.
TruthyId(o) == o # None /\ o # {0}
TruthyStr(o) == o # None

\* int(token): the integer a token reads as, None when int() raises ValueError.
IntOf(tok) ==
    IF tok = "0" THEN {0}
    ELSE IF tok = "1" THEN {1}
    ELSE IF tok = "2" THEN {2}
    ELSE IF tok = "3" THEN {3}
    ELSE None

\* str.isdigit()
IsDigit(tok) == tok \in {"0", "1", "2", "3"}

VARIABLES
    db,      \* the remote service's records of the kind at hand: id -> name
    pre,     \* those records when the command started
    fault,   \* the remote call that fails in this invocation
    pc,      \* "idle" before the command ran, "done" after
    cmd,     \* name of the command that ran
    args,    \* its parsed arguments
    log,     \* remote calls issued, in order
    res,     \* what the command returned or raised
    out,     \* per-token reports of a multi-target delete
    gwx,     \* what a gateway organization record holds besides identity fields
    ctl,     \* the controller's organization record
    totals,  \* how many records of each resource kind the services hold
    down,    \* the resource kinds whose list query fails in this invocation
    job,     \* what the job's events and stdout endpoints answer
    environ, \* the environment variables and global options of the invocation
    config,  \* the validated configuration the client manager holds
    sessions \* the clients built so far: TLS setting and requests sent

vars == <<db, pre, fault, pc, cmd, args, log, res, out, gwx, ctl, totals, down,
          job, environ, config, sessions>>

\* ------------------------------------------------------- the remote service
Exists(d, i) == i \in StoreIds /\ d[i] # NoRec
Rec(d, i) == [id |-> i, name |-> d[i]]

NoFault == [op |-> "none", id |-> 0]
Faults ==
    {NoFault} \cup {[op |-> "list", id |-> 0]}
    \cup {[op |-> o, id |-> i] : o \in {"get", "delete", "update"}, i \in RecIds}
    \cup {[op |-> o, id |-> 0] : o \in {"create", "ctl_get", "ctl_update"}}

RECURSIVE SortedIds(_)
SortedIds(S) ==
    IF S = {} THEN << >>
    ELSE LET m == CHOOSE x \in S : \A y \in S : x <= y
         IN <<m>> \o SortedIds(S \ {m})

\* list_<kind>(name=s): exact-name filter, {count, results}
ListOk(f) == f.op # "list"
ListResp(d, s) ==
    LET hit == {i \in StoreIds : d[i] = s}
    IN [count |-> Cardinality(hit), results |-> SortedIds(hit)]

\* A remote call as the log keeps it: what was asked, whether it succeeded,
\* and for a list call the count the response reported.
Call(op, arg, ok, n) == [op |-> op, arg |-> arg, ok |-> ok, count |-> n]
ListCall(d, f, s) ==
    Call("list", s, ListOk(f), IF ListOk(f) THEN ListResp(d, s).count ELSE 0)

\* list_credentials / list_inventories / list_hosts (name=s): controller
\* client methods the commands call and controller/client.py lacks; they
\* answer as every list_<kind> of the client surface does.
list_resources(d, s) == ListResp(d, s)

\* get_<kind>(id): the record, or the client's error
GetOk(d, f, i) == Exists(d, i) /\ f # [op |-> "get", id |-> i]
GetCall(d, f, i) == Call("get", i, GetOk(d, f, i), 0)

\* update_<kind>(id, data)
UpdateOk(d, f, i) == Exists(d, i) /\ f # [op |-> "update", id |-> i]
UpdateCall(d, f, i) == Call("update", i, UpdateOk(d, f, i), 0)

\* delete_<kind>(id)
DeleteOk(d, f, i) == Exists(d, i) /\ f # [op |-> "delete", id |-> i]
DeleteCall(d, f, i) == Call("delete", i, DeleteOk(d, f, i), 0)
Removed(d, i) == [d EXCEPT ![i] = NoRec]

\* ------------------------------------------------------ resolution results
\* A resolution step ends with a record or with an error kind; cause tells a
\* missing record ("absent") from a failed request ("transport").
Found(i, n, lg) ==
    [ok |-> TRUE, err |-> "none", cause |-> "none", id |-> i, name |-> n, log |-> lg]
Failed(e, c, lg) ==
    [ok |-> FALSE, err |-> e, cause |-> c, id |-> 0, name |-> NoRec, log |-> lg]

GetCause(d, i) == IF Exists(d, i) THEN "transport" ELSE "absent"

\* utils.find_resource(resources, name_or_id)
find_resource(d, resp, s) ==
    LET results == resp.results
        byId == {k \in 1..Len(results) : IntOf(s) = {results[k]}}
        matches == {k \in 1..Len(results) : d[results[k]] = s}
    IN IF byId # {}
       THEN LET k == CHOOSE x \in byId : \A y \in byId : x <= y
            IN [ok |-> TRUE, err |-> "none", id |-> results[k]]
       ELSE IF Cardinality(matches) = 1
       THEN [ok |-> TRUE, err |-> "none", id |-> results[CHOOSE x \in matches : TRUE]]
       ELSE IF Cardinality(matches) > 1
       THEN [ok |-> FALSE, err |-> "ambiguous", id |-> 0]
       ELSE [ok |-> FALSE, err |-> "notfound", id |-> 0]

\* try: get_<kind>(id) / except: raise CommandError("... with ID <id> not found")
GetOrNotFound(d, f, i, lg) ==
    IF GetOk(d, f, i)
    THEN Found(i, d[i], Append(lg, GetCall(d, f, i)))
    ELSE Failed("notfound", GetCause(d, i), Append(lg, GetCall(d, f, i)))

\* get_<kind>(id) outside any try: the client's error propagates
GetOrRaise(d, f, i, lg) ==
    IF GetOk(d, f, i)
    THEN Found(i, d[i], Append(lg, GetCall(d, f, i)))
    ELSE Failed("upstream", GetCause(d, i), Append(lg, GetCall(d, f, i)))

\* get by --id, then compare the fetched name with the positional reference
CrossCheck(g, ref) ==
    IF ~g.ok THEN g
    ELSE IF g.name # ref THEN Failed("mismatch", "none", g.log)
    ELSE g
GetAndCrossCheck(d, f, i, ref, lg) == CrossCheck(GetOrNotFound(d, f, i, lg), ref)

\* The ladder with its second test off by one: count >= 1 is ambiguous.
CountLadder_OffByOne(d, resp, lg) ==
    IF resp.count = 0 THEN Failed("notfound", "absent", lg)
    ELSE IF resp.count >= 1 THEN Failed("ambiguous", "none", lg)
    ELSE Found(resp.results[1], d[resp.results[1]], lg)

\* the count == 0 / count > 1 / results[0] ladder on a list response
CountLadder(d, resp, lg) ==
    IF resp.count = 0 THEN Failed("notfound", "absent", lg)
    ELSE IF resp.count > 1 THEN Failed("ambiguous", "none", lg)
    ELSE Found(resp.results[1], d[resp.results[1]], lg)

\* list(name=s), then the ladder; the client's error propagates
LookupByCount(d, f, s, lg) ==
    IF ~ListOk(f) THEN Failed("upstream", "transport", Append(lg, ListCall(d, f, s)))
    ELSE CountLadder(d, ListResp(d, s), Append(lg, ListCall(d, f, s)))

\* what utils.find_resource returned or raised, as a resolution result
FindOutcome(d, fr, lg) ==
    IF ~fr.ok THEN Failed(fr.err, IF fr.err = "notfound" THEN "absent" ELSE "none", lg)
    ELSE Found(fr.id, d[fr.id], lg)

\* list(name=s), then utils.find_resource on the response
LookupByFind(d, f, s, lg) ==
    IF ~ListOk(f) THEN Failed("upstream", "transport", Append(lg, ListCall(d, f, s)))
    ELSE FindOutcome(d, find_resource(d, list_resources(d, s), s),
                     Append(lg, ListCall(d, f, s)))

\* ---------------------------------------------------------- command results
\* What take_action() leaves behind: how it ended, the record it acted on,
\* the calls it issued, the service's records afterwards, its reports.
Result(r, d) ==
    [status |-> IF r.ok THEN "ok" ELSE "error", err |-> r.err, cause |-> r.cause,
     id |-> r.id, name |-> r.name, log |-> r.log, db |-> d, out |-> << >>,
     errors |-> 0, total |-> 0, view |-> << >>, warned |-> FALSE]

\* ------------------------------------------------------------ show commands
\* name lookup followed by the re-fetch of the match by its id
ThenGet(d, f, r) == IF ~r.ok THEN r ELSE GetOrRaise(d, f, r.id, r.log)
LookupByFindThenGet(d, f, s, lg) == ThenGet(d, f, LookupByFind(d, f, s, lg))

\* try: find_resource(...) / except: raise CommandError("... not found")
OrNotFound(r) ==
    IF r.ok \/ r.err = "upstream" THEN r ELSE Failed("notfound", r.cause, r.log)
LookupByFindOrNotFound(d, f, s, lg) == OrNotFound(LookupByFind(d, f, s, lg))

\* The name lookup a command family uses.
NameLookup(how, d, f, s, lg) ==
    IF how = "count" THEN LookupByCount(d, f, s, lg)
    ELSE IF how = "find_get" THEN LookupByFindThenGet(d, f, s, lg)
    ELSE LookupByFindOrNotFound(d, f, s, lg)

\* The argument ladder shared by the show commands that take
\* <positional> / --id / --name: missing, redundant, id + positional,
\* id alone, name lookup.
ResolveByFlags(d, f, a, how) ==
    IF ~(TruthyStr(a.ref) \/ TruthyId(a.id) \/ TruthyStr(a.name))
    THEN Failed("missing", "none", << >>)
    ELSE IF TruthyStr(a.name) /\ TruthyStr(a.ref)
    THEN Failed("redundant", "none", << >>)
    ELSE IF TruthyId(a.id) /\ TruthyStr(a.ref)
    THEN GetAndCrossCheck(d, f, Val(a.id), Val(a.ref), << >>)
    ELSE IF TruthyId(a.id)
    THEN GetOrNotFound(d, f, Val(a.id), << >>)
    ELSE NameLookup(how, d, f, Val(IF TruthyStr(a.name) THEN a.name ELSE a.ref), << >>)


\* isdigit() -> get by id, else list + find_resource + get
ShowHost_take_action(d, f, a) ==
    LET ref == Val(a.ref)
    IN Result(IF IsDigit(ref)
            THEN GetOrRaise(d, f, Val(IntOf(ref)), << >>)
            ELSE LookupByFindThenGet(d, f, ref, << >>), d)

\* try int() -> get by id, except ValueError -> list + count ladder
ResolveIntThenCount(d, f, ref) ==
    IF IntOf(ref) # None
    THEN GetOrRaise(d, f, Val(IntOf(ref)), << >>)
    ELSE LookupByCount(d, f, ref, << >>)


\* ------------------------------------------------------------- set commands
\* update_<kind>(id, data) outside any try
UpdateOrRaise(d, f, t) ==
    LET lg1 == Append(t.log, UpdateCall(d, f, t.id))
    IN IF UpdateOk(d, f, t.id)
       THEN Result(Found(t.id, d[t.id], lg1), d)
       ELSE Result(Failed("upstream", GetCause(d, t.id), lg1), d)

\* resolve; nothing to change -> stop (raising or not); else update
SetWith(d, f, a, t, raises) ==
    IF ~t.ok THEN Result(t, d)
    ELSE IF a.upd = {}
    THEN IF raises THEN Result(Failed("nochange", "none", t.log), d)
         ELSE [Result(t, d) EXCEPT !.status = "noop"]
    ELSE UpdateOrRaise(d, f, t)

\* <positional> / --id / --team-name ladder; --id alone is not fetched
ResolveForSet(d, f, a) ==
    IF ~(TruthyStr(a.ref) \/ TruthyId(a.id) \/ TruthyStr(a.name))
    THEN Failed("missing", "none", << >>)
    ELSE IF TruthyStr(a.name) /\ TruthyStr(a.ref)
    THEN Failed("redundant", "none", << >>)
    ELSE IF TruthyId(a.id) /\ TruthyStr(a.ref)
    THEN GetAndCrossCheck(d, f, Val(a.id), Val(a.ref), << >>)
    ELSE IF TruthyId(a.id)
    THEN Found(Val(a.id), NoRec, << >>)
    ELSE LookupByCount(d, f, Val(IF TruthyStr(a.name) THEN a.name ELSE a.ref), << >>)


\* try int() -> that id unfetched, except ValueError -> list + count ladder
ResolveIntUnfetched(d, f, ref) ==
    IF IntOf(ref) # None
    THEN Found(Val(IntOf(ref)), NoRec, << >>)
    ELSE LookupByCount(d, f, ref, << >>)


\* isdigit() -> that id unfetched, else list + find_resource
ResolveDigitUnfetched(d, f, ref) ==
    IF IsDigit(ref)
    THEN Found(Val(IntOf(ref)), NoRec, << >>)
    ELSE LookupByFind(d, f, ref, << >>)


\* isdigit() -> get by id, else list + find_resource
SetHost_take_action(d, f, a) ==
    LET ref == Val(a.ref)
    IN SetWith(d, f, a,
               IF IsDigit(ref) THEN GetOrRaise(d, f, Val(IntOf(ref)), << >>)
               ELSE LookupByFind(d, f, ref, << >>),
               FALSE)


\* ---------------------------------------------------------- delete commands
\* One line written or logged for one positional token.
Report(tok, what, why, i) == [tok |-> tok, what |-> what, why |-> why, id |-> i]

\* Single-target path (--id or --name given): resolve, then
\* try: delete_<kind>(id) / except: raise CommandError("Failed to delete ...")
DeleteResolved(d, f, r) ==
    IF ~r.ok THEN Result(r, d)
    ELSE LET lg1 == Append(r.log, DeleteCall(d, f, r.id))
         IN IF DeleteOk(d, f, r.id)
            THEN Result(Found(r.id, r.name, lg1), Removed(d, r.id))
            ELSE Result(Failed("delete_failed", GetCause(d, r.id), lg1), d)

\* The validation and flag ladder at the head of the delete commands.
ResolveDeleteFlags(d, f, a, how) ==
    IF TruthyId(a.id) /\ a.toks # << >>
    THEN GetAndCrossCheck(d, f, Val(a.id), a.toks[1], << >>)
    ELSE IF TruthyId(a.id)
    THEN GetOrNotFound(d, f, Val(a.id), << >>)
    ELSE NameLookup(how, d, f, Val(a.name), << >>)

\* The delete guards without the "Must specify ... to delete" test.
DeleteGuards_NothingToDo(a) ==
    IF TruthyStr(a.name) /\ a.toks # << >> THEN "redundant"
    ELSE IF TruthyId(a.id) /\ Len(a.toks) > 1 THEN "idmulti"
    ELSE "none"

DeleteGuards(a) ==
    IF ~(a.toks # << >> \/ TruthyId(a.id) \/ TruthyStr(a.name)) THEN "missing"
    ELSE IF TruthyStr(a.name) /\ a.toks # << >> THEN "redundant"
    ELSE IF TruthyId(a.id) /\ Len(a.toks) > 1 THEN "idmulti"
    ELSE "none"

\* Resolution of one bare positional token, per command family.
\*   "fallback": list; count == 0 -> int() and get by id; count > 1 -> report
\*   "strict"  : list; count ladder, no id reading
\*   "find"    : list; find_resource; on failure isdigit() -> get by id
\*   "intfirst": int() -> get by id; ValueError -> list + count ladder
FallbackLadder(d, f, tok, resp, lg) ==
    IF resp.count = 0
    THEN IF IntOf(tok) = None THEN Failed("notfound", "absent", lg)
         ELSE GetOrNotFound(d, f, Val(IntOf(tok)), lg)
    ELSE IF resp.count > 1 THEN Failed("ambiguous", "none", lg)
    ELSE Found(resp.results[1], d[resp.results[1]], lg)

\* (variant: the digits are taken as the id without fetching the record)
FindOrDigit_Unfetched(d, f, tok, r) ==
    IF r.ok \/ r.err = "upstream" THEN r
    ELSE IF IsDigit(tok) THEN Found(Val(IntOf(tok)), d[Val(IntOf(tok))], r.log)
    ELSE Failed("notfound", "absent", r.log)
FindOrDigit(d, f, tok, r) ==
    IF r.ok \/ r.err = "upstream" THEN r
    ELSE IF IsDigit(tok) THEN GetOrRaise(d, f, Val(IntOf(tok)), r.log)
    ELSE Failed("notfound", "absent", r.log)

ResolveToken(style, d, f, tok, lg) ==
    IF style = "fallback"
    THEN IF ~ListOk(f)
         THEN Failed("upstream", "transport", Append(lg, ListCall(d, f, tok)))
         ELSE FallbackLadder(d, f, tok, ListResp(d, tok), Append(lg, ListCall(d, f, tok)))
    ELSE IF style = "strict"
    THEN LookupByCount(d, f, tok, lg)
    ELSE IF style = "find"
    THEN FindOrDigit(d, f, tok, LookupByFind(d, f, tok, lg))
    ELSE IF IntOf(tok) # None
         THEN GetOrRaise(d, f, Val(IntOf(tok)), lg)
         ELSE LookupByCount(d, f, tok, lg)

\* What the loop body writes for a token that did not resolve.
TokenReport(style, tok, r) ==
    IF style = "fallback" /\ r.err \in {"notfound", "ambiguous"}
    THEN Report(tok, r.err, r.err, 0)
    ELSE Report(tok, "failed", r.err, 0)

\* The rest of one iteration once the token is resolved to r (or not):
\* delete the match, report; any exception is caught inside the iteration.
DeleteMatch(style, st, f, tok, r) ==
    IF ~r.ok
    THEN [st EXCEPT !.log = r.log,
                    !.out = Append(@, TokenReport(style, tok, r)),
                    !.errors = @ + 1]
    ELSE IF DeleteOk(st.db, f, r.id)
    THEN [st EXCEPT !.db = Removed(@, r.id),
                    !.log = Append(r.log, DeleteCall(st.db, f, r.id)),
                    !.out = Append(@, Report(tok, "deleted", "none", r.id))]
    ELSE [st EXCEPT !.log = Append(r.log, DeleteCall(st.db, f, r.id)),
                    !.out = Append(@, Report(tok, "failed", "delete_failed", r.id)),
                    !.errors = @ + 1]

\* One iteration of a multi-target loop.
DeleteToken(style, st, f, tok) ==
    DeleteMatch(style, st, f, tok, ResolveToken(style, st.db, f, tok, st.log))

RECURSIVE DeleteLoop(_, _, _, _, _)
DeleteLoop(style, st, f, toks, k) ==
    IF k > Len(toks) THEN st
    ELSE DeleteLoop(style, DeleteToken(style, st, f, toks[k]), f, toks, k + 1)

LoopStart(d) == [db |-> d, log |-> << >>, out |-> << >>, errors |-> 0]

\* for <token> in parsed_args.<tokens>: ... ; the command returns normally
BestEffortResult(st) ==
    [Result(Found(0, NoRec, st.log), st.db) EXCEPT !.out = st.out]
BestEffortDelete(style, d, f, a) ==
    BestEffortResult(DeleteLoop(style, LoopStart(d), f, a.toks, 1))

\* ... ; if errors > 0: raise CommandError("<errors> of <total> ... failed")
\* (variant: the error says that some token failed, not how many)
CountedResult_Uncounted(st, n) ==
    [Result(IF st.errors > 0 THEN Failed("partial", "none", st.log)
            ELSE Found(0, NoRec, st.log), st.db)
     EXCEPT !.out = st.out, !.errors = IF st.errors > 0 THEN 1 ELSE 0, !.total = n]
CountedResult(st, n) ==
    [Result(IF st.errors > 0 THEN Failed("partial", "none", st.log)
            ELSE Found(0, NoRec, st.log), st.db)
     EXCEPT !.out = st.out, !.errors = st.errors, !.total = n]
CountedDelete(style, d, f, a) ==
    CountedResult(DeleteLoop(style, LoopStart(d), f, a.toks, 1), Len(a.toks))

DeleteWithFlags(style, d, f, a, how) ==
    IF DeleteGuards(a) # "none" THEN Result(Failed(DeleteGuards(a), "none", << >>), d)
    ELSE IF TruthyId(a.id) \/ TruthyStr(a.name)
    THEN DeleteResolved(d, f, ResolveDeleteFlags(d, f, a, how))
    ELSE IF style = "strict" THEN CountedDelete(style, d, f, a)
    ELSE BestEffortDelete(style, d, f, a)



\* DeleteHost collects (id, name) pairs first and deletes afterwards; a token
\* that does not resolve raises out of the collecting loop.
HostToken(d, f, tok, lg) ==
    IF IsDigit(tok)
    THEN GetOrNotFound(d, f, Val(IntOf(tok)), lg)
    ELSE LookupByCount(d, f, tok, lg)

\* hosts_to_delete.append(...) for a resolved token, the raise otherwise
HostCollect(acc, r) ==
    IF r.ok
    THEN [acc EXCEPT !.log = r.log,
                     !.targets = Append(@, [id |-> r.id, name |-> r.name])]
    ELSE [acc EXCEPT !.ok = FALSE, !.err = r.err, !.cause = r.cause, !.log = r.log]

RECURSIVE HostTargets(_, _, _, _, _)
HostTargets(d, f, toks, k, acc) ==
    IF k > Len(toks) \/ ~acc.ok THEN acc
    ELSE HostTargets(d, f, toks, k + 1,
                     HostCollect(acc, HostToken(d, f, toks[k], acc.log)))

\* try: delete_host(id), write "deleted" / except: write "Failed to delete"
HostDelete(st, f, t) ==
    IF DeleteOk(st.db, f, t.id)
    THEN [st EXCEPT !.db = Removed(@, t.id),
                    !.log = Append(@, DeleteCall(st.db, f, t.id)),
                    !.out = Append(@, Report(t.name, "deleted", "none", t.id))]
    ELSE [st EXCEPT !.log = Append(@, DeleteCall(st.db, f, t.id)),
                    !.errors = @ + 1,
                    !.out = Append(@, Report(t.name, "failed", "delete_failed", t.id))]

\* for host_id, host_name in hosts_to_delete
RECURSIVE HostDeletes(_, _, _, _)
HostDeletes(st, f, targets, k) ==
    IF k > Len(targets) THEN st
    ELSE HostDeletes(HostDelete(st, f, targets[k]), f, targets, k + 1)

\* "Handle single host deletion via flags": the flagged host, if any
HostSingle(d, f, a) ==
    IF ~(TruthyId(a.id) \/ TruthyStr(a.name)) THEN Found(0, NoRec, << >>)
    ELSE IF TruthyId(a.id) /\ a.toks # << >>
    THEN GetAndCrossCheck(d, f, Val(a.id), a.toks[1], << >>)
    ELSE IF TruthyId(a.id)
    THEN GetOrNotFound(d, f, Val(a.id), << >>)
    ELSE LookupByCount(d, f, Val(a.name), << >>)

\* hosts_to_delete after the flag block
HostFlagged(a, single) ==
    [ok |-> single.ok, err |-> single.err, cause |-> single.cause, log |-> single.log,
     targets |-> IF (TruthyId(a.id) \/ TruthyStr(a.name)) /\ single.ok
                 THEN <<[id |-> single.id, name |-> single.name]>>
                 ELSE << >>]

\* "Handle multiple hosts via positional arguments"
HostCollected(d, f, a, acc0) ==
    IF a.toks # << >> /\ ~(TruthyId(a.id) /\ Len(a.toks) = 1)
    THEN HostTargets(d, f, a.toks, 1, acc0)
    ELSE acc0

\* "No hosts specified for deletion", or the delete loop
HostFinish(d, f, acc) ==
    IF ~acc.ok THEN Result(Failed(acc.err, acc.cause, acc.log), d)
    ELSE IF acc.targets = << >> THEN Result(Failed("missing", "none", acc.log), d)
    ELSE BestEffortResult(
             HostDeletes([LoopStart(d) EXCEPT !.log = acc.log], f, acc.targets, 1))



\* ------------------------------------------------------------ organizations
\* JSON objects are functions from keys to values; dict.get(key, default).
EmptyDict == << >>
DictGet(dict, k, default) == IF k \in DOMAIN dict THEN dict[k] ELSE default
DictSet(dict, k, v) == [x \in DOMAIN dict \cup {k} |-> IF x = k THEN v ELSE dict[x]]
PyNone == "None"

IdentityFields == {"id", "name", "description", "managed", "created", "modified"}
OperationalFields == {"max_hosts", "custom_virtualenv", "default_environment"}
Counters == {"users", "teams", "projects", "job_templates", "inventories"}

\* related_field_counts objects: any subset of the counters, one value
CountMaps == UNION {[P -> {v}] : P \in SUBSET Counters, v \in 1..MaxCount}
SummaryShapes ==
    {EmptyDict} \cup {[summary_fields |-> EmptyDict]}
    \cup {[summary_fields |-> [related_field_counts |-> m]] : m \in CountMaps}

\* The gateway's record of organization i.
GatewayOrg(d, x, i) ==
    [id |-> i, name |-> d[i], description |-> "gw-description",
     managed |-> "gw-managed", created |-> "gw-created",
     modified |-> "gw-modified"] @@ x

\* Records the controller may return for an organization: its own values for
\* the identity fields, the operational fields or not, any summary shape.
CtlIdentity ==
    [id |-> 0, name |-> "ctl-name", description |-> "ctl-description",
     managed |-> "ctl-managed", created |-> "ctl-created",
     modified |-> "ctl-modified"]
CtlOperational ==
    [max_hosts |-> "ctl-max_hosts", custom_virtualenv |-> "ctl-custom_virtualenv",
     default_environment |-> "ctl-default_environment"]
CtlShapes ==
    {EmptyDict}
    \cup {CtlIdentity @@ s : s \in SummaryShapes}
    \cup {CtlIdentity @@ CtlOperational @@ s : s \in SummaryShapes}

CtlGetOk(d, f, i) == Exists(d, i) /\ f.op # "ctl_get"
CtlGetCall(d, f, i) == Call("ctl_get", i, CtlGetOk(d, f, i), 0)
CtlUpdateOk(d, f, i) == Exists(d, i) /\ f.op # "ctl_update"
CtlUpdateCall(d, f, i) == Call("ctl_update", i, CtlUpdateOk(d, f, i), 0)

RelatedCounts(rec) ==
    DictGet(DictGet(rec, "summary_fields", EmptyDict), "related_field_counts", EmptyDict)

\* The merge starting from the gateway record updated with the controller
\* record (merged_org.update(controller_org)): the controller's fields win.
merge_ControllerWins(gateway_org, controller_org) ==
    IF DOMAIN controller_org # {}
    THEN LET controller_counts == RelatedCounts(controller_org)
             m0 == controller_org @@ gateway_org
             m1 == DictSet(m0, "max_hosts", DictGet(controller_org, "max_hosts", PyNone))
             m2 == DictSet(m1, "custom_virtualenv",
                           DictGet(controller_org, "custom_virtualenv", PyNone))
             m3 == DictSet(m2, "default_environment",
                           DictGet(controller_org, "default_environment", PyNone))
             m4 == DictSet(m3, "users", DictGet(controller_counts, "users", 0))
             m5 == DictSet(m4, "teams", DictGet(controller_counts, "teams", 0))
             m6 == DictSet(m5, "projects", DictGet(controller_counts, "projects", 0))
             m7 == DictSet(m6, "job_templates", DictGet(controller_counts, "job_templates", 0))
         IN DictSet(m7, "inventories", DictGet(controller_counts, "inventories", 0))
    ELSE LET gateway_counts == RelatedCounts(gateway_org)
             m1 == DictSet(gateway_org, "users", DictGet(gateway_counts, "users", 0))
             m2 == DictSet(m1, "teams", DictGet(gateway_counts, "teams", 0))
             m3 == DictSet(m2, "projects", 0)
             m4 == DictSet(m3, "job_templates", 0)
         IN DictSet(m4, "inventories", 0)

\* ShowOrganization.take_action, "Merge data prioritizing Gateway for
\* identity, Controller for operational"
merge(gateway_org, controller_org) ==
    IF DOMAIN controller_org # {}
    THEN LET controller_counts == RelatedCounts(controller_org)
             m1 == DictSet(gateway_org, "max_hosts", DictGet(controller_org, "max_hosts", PyNone))
             m2 == DictSet(m1, "custom_virtualenv",
                           DictGet(controller_org, "custom_virtualenv", PyNone))
             m3 == DictSet(m2, "default_environment",
                           DictGet(controller_org, "default_environment", PyNone))
             m4 == DictSet(m3, "users", DictGet(controller_counts, "users", 0))
             m5 == DictSet(m4, "teams", DictGet(controller_counts, "teams", 0))
             m6 == DictSet(m5, "projects", DictGet(controller_counts, "projects", 0))
             m7 == DictSet(m6, "job_templates", DictGet(controller_counts, "job_templates", 0))
         IN DictSet(m7, "inventories", DictGet(controller_counts, "inventories", 0))
    ELSE LET gateway_counts == RelatedCounts(gateway_org)
             m1 == DictSet(gateway_org, "users", DictGet(gateway_counts, "users", 0))
             m2 == DictSet(m1, "teams", DictGet(gateway_counts, "teams", 0))
             m3 == DictSet(m2, "projects", 0)
             m4 == DictSet(m3, "job_templates", 0)
         IN DictSet(m4, "inventories", 0)

\* try: controller_client.get_organization(org_id) / except: warn, {}
FetchControllerOrg(d, f, c, i) == IF CtlGetOk(d, f, i) THEN c ELSE EmptyDict

\* The second half of the show handler without the try/except around the
\* controller fetch.
ShowMerged_Propagates(d, f, x, c, r) ==
    IF ~r.ok THEN Result(r, d)
    ELSE IF ~CtlGetOk(d, f, r.id)
    THEN Result(Failed("upstream", "transport", Append(r.log, CtlGetCall(d, f, r.id))), d)
    ELSE [Result(Found(r.id, r.name, Append(r.log, CtlGetCall(d, f, r.id))), d)
          EXCEPT !.view = merge(GatewayOrg(d, x, r.id), c)]

\* ShowOrganization.take_action once the gateway record r is resolved:
\* controller fetch inside try/except, merge, display.
ShowMerged(d, f, x, c, r) ==
    IF ~r.ok THEN Result(r, d)
    ELSE [Result(Found(r.id, r.name, Append(r.log, CtlGetCall(d, f, r.id))), d)
          EXCEPT !.view = merge(GatewayOrg(d, x, r.id), FetchControllerOrg(d, f, c, r.id)),
                 !.warned = ~CtlGetOk(d, f, r.id)]


\* ListOrganization.take_action: per organization, users and teams from the
\* controller, or from the gateway's own summary when that fetch raises.
ListRow(d, f, c, org) ==
    LET counts == IF CtlGetOk(d, f, org.id) THEN RelatedCounts(c) ELSE RelatedCounts(org)
    IN DictSet(DictSet(org, "users", DictGet(counts, "users", 0)),
               "teams", DictGet(counts, "teams", 0))

ListOrganization_take_action(d, f, x, c) ==
    LET ids == SortedIds({i \in StoreIds : d[i] # NoRec})
        lg == <<Call("list", NoRec, ListOk(f), IF ListOk(f) THEN Len(ids) ELSE 0)>>
    IN IF ~ListOk(f) THEN Result(Failed("upstream", "transport", lg), d)
       ELSE [Result(Found(0, NoRec,
                          lg \o [k \in 1..Len(ids) |-> CtlGetCall(d, f, ids[k])]), d)
             EXCEPT !.view = [k \in 1..Len(ids) |-> ListRow(d, f, c, GatewayOrg(d, x, ids[k]))]]


\* CreateOrganization.take_action: gateway create first; then, with
\* --max-hosts, a controller update inside try/except.
NewId == MaxId + 1
CreateOk(f) == f.op # "create"
CreateCall(f, n) == Call("create", n, CreateOk(f), 0)

CreateOrganization_take_action(d, f, x, c, a) ==
    LET lg1 == <<CreateCall(f, Val(a.ref))>>
        d1 == [d EXCEPT ![NewId] = Val(a.ref)]
        gateway_org == GatewayOrg(d1, x, NewId)
        lg2 == Append(lg1, CtlUpdateCall(d1, f, NewId))
    IN IF ~CreateOk(f) THEN Result(Failed("upstream", "transport", lg1), d)
       ELSE IF "max_hosts" \notin a.upd
       THEN [Result(Found(NewId, Val(a.ref), lg1), d1) EXCEPT !.view = gateway_org]
       ELSE IF CtlUpdateOk(d1, f, NewId)
       THEN [Result(Found(NewId, Val(a.ref), lg2), d1)
             EXCEPT !.view = DictSet(gateway_org, "max_hosts",
                                     DictGet(c, "max_hosts", PyNone))]
       ELSE [Result(Found(NewId, Val(a.ref), lg2), d1)
             EXCEPT !.view = DictSet(gateway_org, "max_hosts", PyNone),
                    !.warned = TRUE]

\* The set handler with the gateway update wrapped like the controller update:
\* a failed gateway write is followed by the controller write all the same.
SetOrganizationWrites_GatewayUnchecked(d, f, x, c, a, t) ==
    LET gw == a.upd \cap {"name", "description"} # {}
        lgG == IF gw THEN Append(t.log, UpdateCall(d, f, t.id)) ELSE t.log
        ctlW == "max_hosts" \in a.upd
        lgC == IF ctlW THEN Append(lgG, CtlUpdateCall(d, f, t.id)) ELSE lgG
        ctlOk == ctlW /\ CtlUpdateOk(d, f, t.id)
    IN IF gw /\ ~UpdateOk(d, f, t.id)
       THEN Result(Failed("upstream", GetCause(d, t.id), lgC), d)
       ELSE IF ~gw /\ ~ctlOk
       THEN [Result(Failed("nochange", "none", lgC), d) EXCEPT !.warned = ctlW]
       ELSE [Result(Found(t.id, d[t.id], lgC), d)
             EXCEPT !.view = GatewayOrg(d, x, t.id), !.warned = ctlW /\ ~ctlOk]

\* SetOrganization.take_action after the reference is resolved to org_id:
\* gateway update of name/description, controller update of max_hosts inside
\* try/except (with a gateway get when nothing was updated before), and
\* "No properties specified to update" when updated_org is still None.
SetOrganizationWrites(d, f, x, c, a, t) ==
    LET gw == a.upd \cap {"name", "description"} # {}
        lgG == IF gw THEN Append(t.log, UpdateCall(d, f, t.id)) ELSE t.log
        gwFails == gw /\ ~UpdateOk(d, f, t.id)
        updated0 == IF gw THEN GatewayOrg(d, x, t.id) ELSE EmptyDict
        ctlW == "max_hosts" \in a.upd
        lgC == IF ctlW THEN Append(lgG, CtlUpdateCall(d, f, t.id)) ELSE lgG
        ctlOk == ctlW /\ CtlUpdateOk(d, f, t.id)
        refetch == ctlOk /\ ~gw
        lgR == IF refetch THEN Append(lgC, GetCall(d, f, t.id)) ELSE lgC
        applied == ctlOk /\ (gw \/ GetOk(d, f, t.id))
        base == IF gw THEN updated0
                ELSE IF applied THEN GatewayOrg(d, x, t.id) ELSE EmptyDict
        updated == IF applied
                   THEN DictSet(base, "max_hosts", DictGet(c, "max_hosts", PyNone))
                   ELSE base
    IN IF gwFails
       THEN Result(Failed("upstream", GetCause(d, t.id), lgG), d)
       ELSE IF ~gw /\ ~applied
       THEN [Result(Failed("nochange", "none", lgR), d) EXCEPT !.warned = ctlW]
       ELSE [Result(Found(t.id, d[t.id], lgR), d)
             EXCEPT !.view = updated, !.warned = ctlW /\ ~applied]

SetResolvedOrganization(d, f, x, c, a, t) ==
    IF ~t.ok THEN Result(t, d) ELSE SetOrganizationWrites(d, f, x, c, a, t)


\* ------------------------------------------------------ reporting commands
\* resource_configs of ResourceList.take_action, in its order
ResourceKinds ==
    <<"Templates", "Projects", "Inventories", "Hosts", "Credentials",
      "Organizations", "Teams", "Users">>
KindSet == {ResourceKinds[k] : k \in DOMAIN ResourceKinds}
\* every kind holds a different number of records, b at the least
KindTotals(b) ==
    [kind \in KindSet |-> b + CHOOSE k \in DOMAIN ResourceKinds : ResourceKinds[k] = kind]

\* list_<kind>(page_size=1) and response.get('count', 0)
CountCall(t, dn, kind) ==
    Call("list", kind, kind \notin dn, IF kind \notin dn THEN t[kind] ELSE 0)

\* one pass of the loop: [resource_name, count], or on any exception
\* LOG.warning and [resource_name, 'Error']
\* (variant: a failed query shows as a count of zero)
CountRow_Zero(t, dn, kind) ==
    [kind |-> kind, cell |-> "count", count |-> CountCall(t, dn, kind).count]
CountRow(t, dn, kind) ==
    IF CountCall(t, dn, kind).ok
    THEN [kind |-> kind, cell |-> "count", count |-> CountCall(t, dn, kind).count]
    ELSE [kind |-> kind, cell |-> "Error", count |-> 0]

ResourceList_take_action(d, t, dn) ==
    [Result(Found(0, NoRec,
                  [k \in DOMAIN ResourceKinds |-> CountCall(t, dn, ResourceKinds[k])]), d)
     EXCEPT !.view = [k \in DOMAIN ResourceKinds |-> CountRow(t, dn, ResourceKinds[k])],
            !.warned = \E k \in DOMAIN ResourceKinds :
                           ~CountCall(t, dn, ResourceKinds[k]).ok]

\* What client.get('jobs/<id>/job_events/') and client.get('jobs/<id>/stdout/')
\* answer: the events' stdout values and the stdout text, unless the request
\* is one of those that fail; and the status client.get('jobs/<id>/') answers
\* ("None" when the answer has no status), with the job requests that fail.
EventShapes == {<< >>, <<"">>, <<"line">>, <<"line", "">>}
JobShapes ==
    [events : EventShapes, stdout : {"", "text"},
     failing : SUBSET {"events", "stdout", "get", "cancel"},
     status : {"pending", "waiting", "running", "successful", "canceled", PyNone}]
EventsCall(j) == Call("job_events", 0, "events" \notin j.failing, 0)
StdoutCall(j) == Call("job_stdout", 0, "stdout" \notin j.failing, 0)

\* for event in events_data['results']: if event.get('stdout'): write it
EventLines(ev) == SelectSeq(ev, LAMBDA x : x # "")

\* the except branch: fall back to the job's stdout; when that fails too,
\* write "Failed to retrieve job output" and return
StdoutFallback(d, j) ==
    [Result(Found(0, NoRec, <<EventsCall(j), StdoutCall(j)>>), d)
     EXCEPT !.view = IF ~StdoutCall(j).ok THEN <<"Failed to retrieve job output">>
                     ELSE IF j.stdout = "" THEN <<"No output available for this job">>
                     ELSE <<j.stdout>>]

ShowJobOutput_take_action(d, j) ==
    IF ~EventsCall(j).ok THEN StdoutFallback(d, j)
    ELSE [Result(Found(0, NoRec, <<EventsCall(j)>>), d)
          EXCEPT !.view = IF j.events = << >>
                          THEN <<"No output available for this job">>
                          ELSE EventLines(j.events)]

\* (variant: the cancel request is posted whatever the fetched status)
CancelJob_take_action_AnyStatus(d, j) ==
    LET fetch == Call("job_get", 0, "get" \notin j.failing, 0)
        post == Call("job_cancel", 0, "cancel" \notin j.failing, 0)
    IN  IF ~fetch.ok THEN Result(Failed("upstream", "transport", <<fetch>>), d)
        ELSE IF ~post.ok
        THEN Result(Failed("upstream", "transport", <<fetch, post>>), d)
        ELSE [Result(Found(0, NoRec, <<fetch, post>>), d)
              EXCEPT !.view = <<"cancellation requested">>]
\* CancelJob.take_action: fetch the job, stop with a message unless its status
\* is one of the three cancelable ones, else post the cancel request.  Neither
\* request is inside a try.
CancelJob_take_action(d, j) ==
    LET fetch == Call("job_get", 0, "get" \notin j.failing, 0)
        post == Call("job_cancel", 0, "cancel" \notin j.failing, 0)
    IN  IF ~fetch.ok THEN Result(Failed("upstream", "transport", <<fetch>>), d)
        ELSE IF j.status \notin {"pending", "waiting", "running"}
        THEN [Result(Found(0, NoRec, <<fetch>>), d)
              EXCEPT !.view = <<"cannot be canceled", j.status>>]
        ELSE IF ~post.ok
        THEN Result(Failed("upstream", "transport", <<fetch, post>>), d)
        ELSE [Result(Found(0, NoRec, <<fetch, post>>), d)
              EXCEPT !.view = <<"cancellation requested">>]


\* ------------------------------------------- configuration and the clients
\* A host string is a sequence of pieces: a scheme word with its colon, a
\* slash, or any other text.  "https://a/" is <<"https:", "/", "/", "a", "/">>.
HostStrings == UNION {[1..n -> {"https:", "http:", "/", "a"}] : n \in 0..MaxHostLen}

\* str.rstrip('/')
RECURSIVE rstrip(_)
rstrip(h) ==
    IF h # << >> /\ h[Len(h)] = "/" THEN rstrip(SubSeq(h, 1, Len(h) - 1)) ELSE h

\* str.startswith(('http://', 'https://'))
startswith(h) ==
    Len(h) >= 3 /\ h[1] \in {"http:", "https:"} /\ h[2] = "/" /\ h[3] = "/"

\* The environment and the global options of one invocation.  One aspect
\* varies at a time: the host, the credentials, the TLS settings, the timeout.
Environs ==
    LET strs == {None, {""}, {"x"}}
        opts == {None, {"y"}}
        base == [AAP_HOST |-> {<<"a">>}, AAP_USERNAME |-> None,
                 AAP_PASSWORD |-> None, AAP_TOKEN |-> {"x"},
                 AAP_VERIFY_SSL |-> None, AAP_CA_BUNDLE |-> None,
                 AAP_TIMEOUT |-> None,
                 aap_host |-> None, aap_username |-> None,
                 aap_password |-> None, aap_token |-> None,
                 aap_verify_ssl |-> None, aap_ca_bundle |-> None]
    IN  {[base EXCEPT !.AAP_HOST = h, !.aap_host = o] :
            h \in Opt(HostStrings), o \in {None, {<< >>}, {<<"a", "/">>}}}
        \cup
        {[base EXCEPT !.AAP_HOST = h, !.AAP_TOKEN = t, !.AAP_USERNAME = u,
                      !.AAP_PASSWORD = p, !.aap_token = ot,
                      !.aap_username = ou, !.aap_password = op] :
            h \in {None, {<<"a">>}}, t \in strs, u \in strs, p \in strs,
            ot \in opts, ou \in opts, op \in opts}
        \cup
        {[base EXCEPT !.AAP_VERIFY_SSL = v, !.AAP_CA_BUNDLE = b,
                      !.aap_verify_ssl = ov, !.aap_ca_bundle = ob] :
            v \in Opt({"true", "TRUE", "on", "false", "0"}),
            b \in {None, {""}, {"ca.pem"}},
            ov \in {None, {TRUE}}, ob \in {None, {"opt.pem"}}}
        \cup
        {[base EXCEPT !.AAP_TIMEOUT = t] :
            t \in Opt({"", "abc", "0", "2"})}

\* AAPConfig(): the fields read from the environment.  int() of AAP_TIMEOUT
\* falls back to the default when it raises ValueError.
AAPConfig(e) ==
    LET v == IF e.AAP_VERIFY_SSL = None THEN "true" ELSE Val(e.AAP_VERIFY_SSL)
        lower == IF v = "TRUE" THEN "true" ELSE v
        t == IF e.AAP_TIMEOUT = None THEN {DefaultTimeout}
             ELSE IntOf(Val(e.AAP_TIMEOUT))
    IN  [host |-> e.AAP_HOST, username |-> e.AAP_USERNAME,
         password |-> e.AAP_PASSWORD, token |-> e.AAP_TOKEN,
         verify_ssl |-> lower \in {"true", "1", "yes", "on"},
         ca_bundle |-> e.AAP_CA_BUNDLE,
         timeout |-> IF t = None THEN DefaultTimeout ELSE Val(t)]

\* validate(): the configuration it leaves behind, and whether it raised.
validate_AnyCredentials(c) ==
    IF c.host \in {None, {<< >>}} THEN [raised |-> TRUE, config |-> c]
    ELSE LET h == rstrip(Val(c.host))
             host == IF startswith(h) THEN h ELSE <<"https:", "/", "/">> \o h
         IN  [raised |-> FALSE, config |-> [c EXCEPT !.host = {host}]]
validate(c) ==
    IF c.host \in {None, {<< >>}} THEN [raised |-> TRUE, config |-> c]
    ELSE LET h == rstrip(Val(c.host))
             host == IF startswith(h) THEN h ELSE <<"https:", "/", "/">> \o h
             set(o) == o \notin {None, {""}}
         IN  [raised |-> ~(set(c.token) \/ (set(c.username) /\ set(c.password))),
              config |-> [c EXCEPT !.host = {host}]]

\* ------------------------------------------------------------------- inputs
MkArgs(ref, id, name, toks, upd) ==
    [ref |-> ref, id |-> id, name |-> name, toks |-> toks, upd |-> upd]
NoArgs == MkArgs(None, None, None, << >>, {})

TokSeqs(n) == UNION {[1..k -> Names] : k \in 0..n}

\* <positional>? with the mutually exclusive group --id | --name
FlagArgs ==
    {a \in [ref : Opt(Names), id : Opt(ArgIds), name : Opt(Names),
            toks : {<< >>}, upd : {{}}] : a.id = None \/ a.name = None}
\* a required positional
RefArgs == {MkArgs({r}, None, None, << >>, {}) : r \in Names}
\* set commands: with and without a property to change
SetFlagArgs == {[a EXCEPT !.upd = u] : a \in FlagArgs, u \in {{}, {"description"}}}
SetRefArgs == {[a EXCEPT !.upd = u] : a \in RefArgs, u \in {{}, {"description"}}}
OrgSetArgs ==
    {[a EXCEPT !.upd = u] : a \in FlagArgs,
                            u \in SUBSET {"name", "description", "max_hosts"}}
OrgCreateArgs ==
    {[a EXCEPT !.upd = u] : a \in RefArgs, u \in SUBSET {"description", "max_hosts"}}
\* <positional>* with the mutually exclusive group --id | --name
DeleteArgs ==
    {a \in [ref : {None}, id : Opt(ArgIds), name : Opt(Names),
            toks : TokSeqs(MaxTokens), upd : {{}}] :
        /\ a.id = None \/ a.name = None
        /\ (a.id # None \/ a.name # None) => Len(a.toks) <= 2}
\* DeleteHost declares --id and --name outside any group
HostDeleteArgs ==
    {a \in [ref : {None}, id : Opt(ArgIds), name : Opt(Names),
            toks : TokSeqs(MaxTokens), upd : {{}}] :
        (a.id # None \/ a.name # None) => Len(a.toks) <= 2}
\* <workflow>+
TokenArgs == {MkArgs(None, None, None, t, {}) : t \in TokSeqs(MaxTokens) \ {<< >>}}

\* ------------------------------------------------------------------ actions
NoRes ==
    [status |-> "none", err |-> "none", cause |-> "none", id |-> 0, name |-> NoRec,
     errors |-> 0, total |-> 0, view |-> << >>, warned |-> FALSE]

\* cliff runs take_action(parsed_args) once per process.
Run(c, a, h) ==
    /\ pc' = "done"
    /\ cmd' = c
    /\ args' = a
    /\ pre' = db
    /\ db' = h.db
    /\ log' = h.log
    /\ out' = h.out
    /\ res' = [k \in DOMAIN NoRes |-> h[k]]
    /\ UNCHANGED <<fault, gwx, ctl, totals, down, job, environ, config, sessions>>

ShowOrganization ==
    pc = "idle" /\ \E a \in FlagArgs :
        Run("ShowOrganization", a,
            ShowMerged(db, fault, gwx, ctl, ResolveByFlags(db, fault, a, "count")))
ShowTeam ==
    pc = "idle" /\ \E a \in FlagArgs :
        Run("ShowTeam", a, Result(ResolveByFlags(db, fault, a, "count"), db))
ShowUser ==
    pc = "idle" /\ \E a \in FlagArgs :
        Run("ShowUser", a, Result(ResolveByFlags(db, fault, a, "count"), db))
ShowProject ==
    pc = "idle" /\ \E a \in FlagArgs :
        Run("ShowProject", a, Result(ResolveByFlags(db, fault, a, "count"), db))
ShowCredential ==
    pc = "idle" /\ \E a \in FlagArgs :
        Run("ShowCredential", a, Result(ResolveByFlags(db, fault, a, "find_get"), db))
ShowInventory ==
    pc = "idle" /\ \E a \in FlagArgs :
        Run("ShowInventory", a, Result(ResolveByFlags(db, fault, a, "find_get"), db))
ShowHost == pc = "idle" /\ \E a \in RefArgs : Run("ShowHost", a, ShowHost_take_action(db, fault, a))
ShowJobTemplate ==
    pc = "idle" /\ \E a \in RefArgs :
        Run("ShowJobTemplate", a, Result(ResolveIntThenCount(db, fault, Val(a.ref)), db))
ShowWorkflow ==
    pc = "idle" /\ \E a \in RefArgs :
        Run("ShowWorkflow", a, Result(ResolveIntThenCount(db, fault, Val(a.ref)), db))

SetOrganization ==
    pc = "idle" /\ \E a \in OrgSetArgs :
        Run("SetOrganization", a,
            SetResolvedOrganization(db, fault, gwx, ctl, a, ResolveForSet(db, fault, a)))
SetTeam ==
    pc = "idle" /\ \E a \in SetFlagArgs :
        Run("SetTeam", a, SetWith(db, fault, a, ResolveForSet(db, fault, a), TRUE))
SetUser ==
    pc = "idle" /\ \E a \in SetRefArgs :
        Run("SetUser", a,
            SetWith(db, fault, a, ResolveIntUnfetched(db, fault, Val(a.ref)), TRUE))
SetProject ==
    pc = "idle" /\ \E a \in SetRefArgs :
        Run("SetProject", a,
            SetWith(db, fault, a, ResolveIntUnfetched(db, fault, Val(a.ref)), TRUE))
SetWorkflow ==
    pc = "idle" /\ \E a \in SetRefArgs :
        Run("SetWorkflow", a,
            SetWith(db, fault, a, ResolveIntUnfetched(db, fault, Val(a.ref)), TRUE))
SetCredential ==
    pc = "idle" /\ \E a \in SetRefArgs :
        Run("SetCredential", a,
            SetWith(db, fault, a, ResolveDigitUnfetched(db, fault, Val(a.ref)), FALSE))
SetInventory ==
    pc = "idle" /\ \E a \in SetRefArgs :
        Run("SetInventory", a,
            SetWith(db, fault, a, ResolveDigitUnfetched(db, fault, Val(a.ref)), FALSE))
SetHost == pc = "idle" /\ \E a \in SetRefArgs : Run("SetHost", a, SetHost_take_action(db, fault, a))

DeleteOrganization ==
    pc = "idle" /\ \E a \in DeleteArgs :
        Run("DeleteOrganization", a, DeleteWithFlags("fallback", db, fault, a, "count"))
DeleteTeam ==
    pc = "idle" /\ \E a \in DeleteArgs :
        Run("DeleteTeam", a, DeleteWithFlags("fallback", db, fault, a, "count"))
DeleteUser ==
    pc = "idle" /\ \E a \in DeleteArgs :
        Run("DeleteUser", a, DeleteWithFlags("fallback", db, fault, a, "count"))
DeleteProject ==
    pc = "idle" /\ \E a \in DeleteArgs :
        Run("DeleteProject", a, DeleteWithFlags("strict", db, fault, a, "count"))
DeleteCredential ==
    pc = "idle" /\ \E a \in DeleteArgs :
        Run("DeleteCredential", a, DeleteWithFlags("find", db, fault, a, "find_or_not_found"))
DeleteInventory ==
    pc = "idle" /\ \E a \in DeleteArgs :
        Run("DeleteInventory", a, DeleteWithFlags("find", db, fault, a, "find_or_not_found"))
DeleteHost ==
    pc = "idle" /\ \E a \in HostDeleteArgs :
        Run("DeleteHost", a,
            HostFinish(db, fault,
                       HostCollected(db, fault, a, HostFlagged(a, HostSingle(db, fault, a)))))
DeleteWorkflow ==
    pc = "idle" /\ \E a \in TokenArgs :
        Run("DeleteWorkflow", a, CountedDelete("intfirst", db, fault, a))

CreateOrganization ==
    pc = "idle" /\ \E a \in OrgCreateArgs :
        Run("CreateOrganization", a, CreateOrganization_take_action(db, fault, gwx, ctl, a))
ListOrganization ==
    /\ pc = "idle"
    /\ Run("ListOrganization", NoArgs, ListOrganization_take_action(db, fault, gwx, ctl))

ResourceList ==
    /\ pc = "idle"
    /\ Run("ResourceList", NoArgs, ResourceList_take_action(db, totals, down))
ShowJobOutput ==
    pc = "idle" /\ \E a \in RefArgs : Run("ShowJobOutput", a, ShowJobOutput_take_action(db, job))
CancelJob ==
    pc = "idle" /\ \E a \in RefArgs : Run("CancelJob", a, CancelJob_take_action(db, job))

\* cliff calls prepare_to_run_command() before the command: the environment
\* is read, truthy options override it, validate() runs, and only then is the
\* client manager created.
prepare_to_run_command ==
    /\ pc = "idle"
    /\ LET e == environ
           set(o) == o \notin {None, {""}}
           c == [AAPConfig(e) EXCEPT
                   !.host = IF e.aap_host \notin {None, {<< >>}}
                            THEN e.aap_host ELSE @,
                   !.username = IF set(e.aap_username) THEN e.aap_username ELSE @,
                   !.password = IF set(e.aap_password) THEN e.aap_password ELSE @,
                   !.token = IF set(e.aap_token) THEN e.aap_token ELSE @,
                   !.verify_ssl = IF e.aap_verify_ssl # None
                                  THEN Val(e.aap_verify_ssl) ELSE @,
                   !.ca_bundle = IF set(e.aap_ca_bundle) THEN e.aap_ca_bundle ELSE @]
           v == validate(c)
       IN  /\ pc' = IF v.raised THEN "rejected" ELSE "prepared"
           /\ config' = IF v.raised THEN config ELSE v.config
    /\ UNCHANGED <<db, pre, fault, cmd, args, log, res, out, gwx, ctl, totals,
                   down, job, environ, sessions>>

\* client_manager.controller, first access: the controller Client is built.
\* Its session verifies as get_ssl_config() says, and _get_base_url() probes
\* the host with one or two requests, depending on the first answer.
ClientManager_controller ==
    /\ pc = "prepared" /\ "controller" \notin DOMAIN sessions
    /\ \E n \in 1..2 :
        sessions' = DictSet(sessions, "controller",
            [verify |-> IF config.ca_bundle \notin {None, {""}}
                        THEN Val(config.ca_bundle)
                        ELSE IF config.verify_ssl THEN "True" ELSE "False",
             sent |-> [i \in 1..n |-> [url |-> "discovery", timeout |-> None]]])
    /\ UNCHANGED <<db, pre, fault, pc, cmd, args, log, res, out, gwx, ctl,
                   totals, down, job, environ, config>>

\* client_manager.gateway, first access: the gateway Client is built.  A new
\* requests session verifies certificates until told otherwise.
ClientManager_gateway ==
    /\ pc = "prepared" /\ "gateway" \notin DOMAIN sessions
    /\ sessions' = DictSet(sessions, "gateway",
            [verify |-> IF ~config.verify_ssl THEN "False"
                        ELSE IF config.ca_bundle \notin {None, {""}}
                        THEN Val(config.ca_bundle) ELSE "True",
             sent |-> <<[url |-> "discovery", timeout |-> {config.timeout}]>>])
    /\ UNCHANGED <<db, pre, fault, pc, cmd, args, log, res, out, gwx, ctl,
                   totals, down, job, environ, config>>

\* Client._make_request() of either client: one API request of the command.
make_request ==
    /\ pc = "prepared"
    /\ \E s \in DOMAIN sessions :
        /\ Len(sessions[s].sent) < 2 + MaxRequests
        /\ sessions' = [sessions EXCEPT ![s].sent =
                Append(@, [url |-> "api", timeout |-> {config.timeout}])]
    /\ UNCHANGED <<db, pre, fault, pc, cmd, args, log, res, out, gwx, ctl,
                   totals, down, job, environ, config>>

\* ----------------------------------------------------------- specifications
Idle ==
    /\ pc = "idle" /\ cmd = "none" /\ args = NoArgs
    /\ log = << >> /\ out = << >> /\ res = NoRes /\ pre = db

\* Any records, any single failing call; organizations of one plain shape.
Init ==
    /\ db \in {d \in [StoreIds -> Names \cup {NoRec}] : d[NewId] = NoRec}
    /\ fault \in Faults
    /\ gwx = [summary_fields |-> [related_field_counts |-> [users |-> 1, teams |-> 1]]]
    /\ ctl = CtlIdentity @@ CtlOperational
    /\ totals = KindTotals(0) /\ down = {}
    /\ job = [events |-> << >>, stdout |-> "", failing |-> {}, status |-> "running"]
    /\ environ = EmptyDict /\ config = EmptyDict /\ sessions = EmptyDict
    /\ Idle

Next ==
    \/ ShowOrganization \/ ShowTeam \/ ShowUser \/ ShowProject \/ ShowCredential
    \/ ShowInventory \/ ShowHost \/ ShowJobTemplate \/ ShowWorkflow
    \/ SetOrganization \/ SetTeam \/ SetUser \/ SetProject \/ SetWorkflow
    \/ SetCredential \/ SetInventory \/ SetHost
    \/ DeleteOrganization \/ DeleteTeam \/ DeleteUser \/ DeleteProject
    \/ DeleteCredential \/ DeleteInventory \/ DeleteHost \/ DeleteWorkflow
    \/ CreateOrganization \/ ListOrganization

Spec == Init /\ [][Next]_vars

\* One organization, every shape of its two records, the controller fetch
\* failing or not.
InitMerge ==
    /\ db = [i \in StoreIds |-> IF i = 1 THEN "a" ELSE NoRec]
    /\ fault \in {NoFault, [op |-> "ctl_get", id |-> 0]}
    /\ gwx \in SummaryShapes
    /\ ctl \in CtlShapes
    /\ totals = KindTotals(0) /\ down = {}
    /\ job = [events |-> << >>, stdout |-> "", failing |-> {}, status |-> "running"]
    /\ environ = EmptyDict /\ config = EmptyDict /\ sessions = EmptyDict
    /\ Idle

NextMerge == ShowOrganization \/ ListOrganization

SpecMerge == InitMerge /\ [][NextMerge]_vars

\* The reporting and job commands: any set of failing count queries, or any
\* answers of the job endpoints.
InitReport ==
    /\ db = [i \in StoreIds |-> NoRec]
    /\ fault = NoFault
    /\ gwx = EmptyDict
    /\ ctl = EmptyDict
    /\ \/ /\ totals \in {KindTotals(b) : b \in 0..MaxCount}
          /\ down \in SUBSET KindSet
          /\ job = [events |-> << >>, stdout |-> "", failing |-> {}, status |-> "running"]
       \/ /\ totals = KindTotals(0) /\ down = {}
          /\ job \in JobShapes
    /\ environ = EmptyDict /\ config = EmptyDict /\ sessions = EmptyDict
    /\ Idle

NextReport == ResourceList \/ ShowJobOutput \/ CancelJob

SpecReport == InitReport /\ [][NextReport]_vars

\* One invocation from the shell's point of view: any environment and global
\* options, no configuration and no client yet.
InitConfig ==
    /\ db = [i \in StoreIds |-> NoRec]
    /\ fault = NoFault
    /\ gwx = EmptyDict
    /\ ctl = EmptyDict
    /\ totals = KindTotals(0) /\ down = {}
    /\ job = [events |-> << >>, stdout |-> "", failing |-> {}, status |-> "running"]
    /\ environ \in Environs
    /\ config = EmptyDict /\ sessions = EmptyDict
    /\ Idle

NextConfig ==
    \/ prepare_to_run_command
    \/ ClientManager_controller \/ ClientManager_gateway
    \/ make_request

SpecConfig == InitConfig /\ [][NextConfig]_vars


\* =================================================================== claims
Ran == pc = "done"

ShowCmds ==
    {"ShowOrganization", "ShowTeam", "ShowUser", "ShowProject", "ShowCredential",
     "ShowInventory", "ShowHost", "ShowJobTemplate", "ShowWorkflow"}
SetCmds ==
    {"SetOrganization", "SetTeam", "SetUser", "SetProject", "SetWorkflow",
     "SetCredential", "SetInventory", "SetHost"}
DeleteCmds ==
    {"DeleteOrganization", "DeleteTeam", "DeleteUser", "DeleteProject",
     "DeleteCredential", "DeleteInventory", "DeleteHost", "DeleteWorkflow"}
ResolvingCmds == ShowCmds \cup SetCmds \cup DeleteCmds

\* Calls that read or change one record (their arg is an id).
RecordOps == {"get", "update", "delete", "ctl_get", "ctl_update"}
WriteOps == {"update", "delete", "ctl_update"}

\* The records a name filter for s matched when call k was issued: those named
\* s when the command started that no earlier call of the run has deleted.
DeletedBefore(k) ==
    {log[j].arg : j \in {x \in 1..(k - 1) : log[x].op = "delete" /\ log[x].ok}}
CandidatesAt(k) == {i \in StoreIds : pre[i] = log[k].arg} \ DeletedBefore(k)

\* The calls issued for the reference that list call k looked up: those after
\* k and before the next list call.
NextList(k) ==
    LET later == {j \in (k + 1)..Len(log) : log[j].op = "list"}
    IN IF later = {} THEN Len(log) + 1 ELSE CHOOSE j \in later : \A y \in later : j <= y
CallsFor(k) == (k + 1)..(NextList(k) - 1)

AmbiguousListCalls ==
    {k \in 1..Len(log) : log[k].op = "list" /\ log[k].ok /\ log[k].count > 1}

\* C1: when a name-filtered list response reports count > 1, the resolving
\* command neither returns a candidate nor fetches, updates or deletes one.
C1_AmbiguousNeverResolved ==
    (Ran /\ cmd \in ResolvingCmds) =>
        \A k \in AmbiguousListCalls :
            /\ \A j \in CallsFor(k) :
                   log[j].op \in RecordOps => log[j].arg \notin CandidatesAt(k)
            /\ (cmd \in ShowCmds \cup SetCmds /\ res.status \in {"ok", "noop"})
                   => res.id \notin CandidatesAt(k)


\* The invocation names one resource: every show and set command, and a
\* delete command given a flag and no positional token.
SingleTarget ==
    \/ cmd \in ShowCmds \cup SetCmds
    \/ cmd \in DeleteCmds /\ args.toks = << >>

OkListCalls == {k \in 1..Len(log) : log[k].op = "list" /\ log[k].ok}

\* C2: in a single-resource command a filtered list response with count == 0
\* ends in a not-found error and one with count > 1 in an ambiguous-name error.
C2_CountDecidesError ==
    (Ran /\ SingleTarget) =>
        \A k \in OkListCalls :
            /\ log[k].count = 0 => res.err = "notfound"
            /\ log[k].count > 1 => res.err = "ambiguous"

\* The invocation gives exactly one reference, s, to be looked up by name:
\* through the name flag, as the positional, or as the only delete token.
NamesOnly(s) ==
    /\ args.id = None
    /\ \/ cmd \in ShowCmds \cup SetCmds \cup DeleteCmds
          /\ args.name = {s} /\ args.ref = None /\ args.toks = << >>
       \/ cmd \in ShowCmds \cup SetCmds /\ args.name = None /\ args.ref = {s}
       \/ cmd \in DeleteCmds /\ args.name = None /\ args.toks = <<s>>
ByFlag(s) == args.name = {s}

IdsNamed(s) == {i \in StoreIds : pre[i] = s}
UniqueName(s) == Cardinality(IdsNamed(s)) = 1
TheId(s) == CHOOSE i \in IdsNamed(s) : TRUE

AllCallsOk == \A k \in 1..Len(log) : log[k].ok
ResolutionErrors ==
    {"missing", "redundant", "notfound", "ambiguous", "mismatch", "idmulti", "partial"}

\* Resolving s reached the one record named s and no other record.
YieldsTheRecordNamed(s) ==
    /\ \A k \in 1..Len(log) : log[k].op \in RecordOps => log[k].arg = TheId(s)
    /\ (cmd \in ShowCmds \cup SetCmds /\ res.status \in {"ok", "noop"})
           => res.id = TheId(s)
    /\ AllCallsOk =>
           /\ res.err \notin ResolutionErrors
           /\ \A k \in 1..Len(out) : out[k].what = "deleted" /\ out[k].id = TheId(s)

\* C3 as stated: every reference string that is a unique name resolves to
\* the record of that name.
C3_UniqueNameResolves_AsStated ==
    Ran => \A s \in Names : (NamesOnly(s) /\ UniqueName(s)) => YieldsTheRecordNamed(s)

\* C3: a reference that is a unique name, and that is given through the name
\* flag or is not numeric (neither int() nor isdigit() accepts it), resolves to
\* the record of that name, whatever other records exist.
C3_UniqueNameResolves ==
    Ran => \A s \in Names :
        (NamesOnly(s) /\ UniqueName(s) /\ (ByFlag(s) \/ (IntOf(s) = None /\ ~IsDigit(s))))
            => YieldsTheRecordNamed(s)

\* a unique name was resolved among records of other names
C3_Witness ==
    /\ Ran /\ cmd = "ShowProject" /\ res.status = "ok"
    /\ \E s \in Names :
        /\ NamesOnly(s) /\ UniqueName(s) /\ res.id = TheId(s)
        /\ \E i \in StoreIds : pre[i] \notin {s, NoRec} /\ i < res.id

\* Commands with the <positional> / --id / --name ladder.
LadderCmds ==
    {"ShowOrganization", "ShowTeam", "ShowUser", "ShowProject", "ShowCredential",
     "ShowInventory", "SetOrganization", "SetTeam", "DeleteOrganization",
     "DeleteTeam", "DeleteUser", "DeleteProject", "DeleteCredential",
     "DeleteInventory", "DeleteHost"}

\* the positional reference given next to --id
Positional ==
    IF cmd \in DeleteCmds
    THEN (IF Len(args.toks) = 1 THEN {args.toks[1]} ELSE None)
    ELSE args.ref

\* C4: with --id and a positional reference the record is fetched by the id
\* and its name compared with the reference; the reference is not looked up.
C4_IdWithPositional ==
    (Ran /\ cmd \in LadderCmds /\ args.id # None /\ args.name = None
         /\ Positional # None) =>
        /\ \A k \in 1..Len(log) : log[k].op # "list"
        /\ Len(log) >= 1 /\ log[1].op = "get" /\ log[1].arg = Val(args.id)
        /\ ~log[1].ok => res.err = "notfound"
        /\ (log[1].ok /\ pre[Val(args.id)] # Val(Positional)) => res.err = "mismatch"
        /\ res.status \in {"ok", "noop"} => pre[Val(args.id)] = Val(Positional)


\* -------------------------------------------------- organization merge claims
ShowedOrg == Ran /\ cmd = "ShowOrganization" /\ res.status = "ok"
ControllerFetched == \E k \in 1..Len(log) : log[k].op = "ctl_get"
OperationalPresent == fault.op # "ctl_get" /\ DOMAIN ctl # {}
OperationalAbsent == fault.op = "ctl_get" \/ DOMAIN ctl = {}

\* C5: with an operational record present the merged record takes the
\* identity fields from the gateway record, and the operational fields and
\* the five counters from the controller record alone.
C5_MergePrecedence ==
    (ShowedOrg /\ OperationalPresent) =>
        /\ \A k \in IdentityFields : res.view[k] = GatewayOrg(pre, gwx, res.id)[k]
        /\ \A k \in OperationalFields : res.view[k] = DictGet(ctl, k, PyNone)
        /\ \A k \in Counters : res.view[k] = DictGet(RelatedCounts(ctl), k, 0)

\* both records name the organization differently and count users differently
C5_Witness ==
    /\ ShowedOrg /\ OperationalPresent
    /\ res.view["name"] = "a" /\ ctl["name"] = "ctl-name"
    /\ res.view["max_hosts"] = "ctl-max_hosts"
    /\ "users" \in DOMAIN RelatedCounts(gwx)
    /\ "users" \notin DOMAIN RelatedCounts(ctl) /\ res.view["users"] = 0

MissingFromIdentity(k) == k \notin DOMAIN RelatedCounts(gwx)

\* C6: when the controller fetch fails or yields no record, show and list
\* still succeed for every shape of the gateway record, and a counter the
\* gateway record's summary lacks is 0 in the result.
C6_MergeFallbackNeverRaises ==
    (Ran /\ ControllerFetched /\ OperationalAbsent) =>
        /\ res.status = "ok"
        /\ cmd = "ShowOrganization" =>
               \A k \in Counters : MissingFromIdentity(k) => res.view[k] = 0
        /\ cmd = "ListOrganization" =>
               /\ Len(res.view) = Cardinality({i \in StoreIds : pre[i] # NoRec})
               /\ \A r \in 1..Len(res.view) : \A k \in {"users", "teams"} :
                      MissingFromIdentity(k) => res.view[r][k] = 0

\* the controller fetch failed for a gateway record without summary_fields
C6_Witness ==
    /\ ShowedOrg /\ ControllerFetched /\ fault.op = "ctl_get" /\ res.warned
    /\ "summary_fields" \notin DOMAIN gwx
    /\ res.view["users"] = 0 /\ res.view["inventories"] = 0

\* C7: without an operational record each of the five counters equals the
\* gateway record's related_field_counts value (0 when missing there), and
\* the operational-only fields are absent or None.
C7_FallbackCounters ==
    (ShowedOrg /\ OperationalAbsent) =>
        /\ \A k \in Counters : res.view[k] = DictGet(RelatedCounts(gwx), k, 0)
        /\ \A k \in OperationalFields : DictGet(res.view, k, PyNone) = PyNone

\* --------------------------------------------------- multi-target deletes
MultiDelete(n) ==
    /\ Ran /\ cmd \in DeleteCmds
    /\ args.id = None /\ args.name = None /\ Len(args.toks) >= n

\* some remote call was made on behalf of token t
Attempted(t) ==
    \E k \in 1..Len(log) :
        \/ log[k].op = "list" /\ log[k].arg = t
        \/ log[k].op = "get" /\ IntOf(t) # None /\ log[k].arg = Val(IntOf(t))

DeleteIssued(i) == \E k \in 1..Len(log) : log[k].op = "delete" /\ log[k].arg = i

\* token t can only mean the one record named t
PlainTarget(t) == IntOf(t) = None /\ UniqueName(t)

\* C8: in a multi-target delete every token is attempted whatever happens to
\* the others, and a delete call is issued for every token that resolves.
C8_DeleteContinuesPastFailure ==
    MultiDelete(2) =>
        \A k \in 1..Len(args.toks) :
            /\ Attempted(args.toks[k])
            /\ (fault.op \notin {"list", "get"} /\ PlainTarget(args.toks[k]))
                   => DeleteIssued(TheId(args.toks[k]))

\* The per-token rule of the specification: the one exact-name match, else
\* the record with the numeric token's id, else no target (0).
RuleTarget(d, t) ==
    LET named == {i \in StoreIds : d[i] = t}
    IN IF Cardinality(named) = 1 THEN CHOOSE i \in named : TRUE
       ELSE IF IntOf(t) # None /\ Val(IntOf(t)) \in StoreIds /\ Exists(d, Val(IntOf(t)))
       THEN Val(IntOf(t))
       ELSE 0

DeletedIds == {i \in StoreIds : pre[i] # NoRec /\ db[i] = NoRec}

\* C9: a bare token of a multi-target delete is resolved by exact name when
\* that gives one match, else as an id when numeric, else fails.
C9_TokenRule ==
    (MultiDelete(1) /\ Len(args.toks) = 1 /\ fault = NoFault) =>
        DeletedIds = {RuleTarget(pre, args.toks[1])} \ {0}

\* ------------------------------------------------- operational write failure
ControllerWriteFailed ==
    \E k \in 1..Len(log) : log[k].op = "ctl_update" /\ ~log[k].ok

\* C10: organization create and set succeed, with a warning, when the
\* controller write fails, for every combination of options.
C10_ControllerWriteFailureTolerated ==
    (Ran /\ cmd \in {"CreateOrganization", "SetOrganization"} /\ ControllerWriteFailed)
        => res.status = "ok" /\ res.warned


\* ------------------------------------------------------- claims, C11 to C20
GatewayWrites == {"create", "update"}
OrgWriteCmds == {"CreateOrganization", "SetOrganization"}
CtlWriteAt(k) == log[k].op = "ctl_update"
GatewayWriteAt(k) == log[k].op \in GatewayWrites

IdOnly == args.id # None /\ args.ref = None /\ args.name = None /\ args.toks = << >>
GivenId == Val(args.id)

\* C12: a show, set or delete command given --id alone first fetches the
\* record by that id, and when no record has that id it fails with not-found
\* and issues no update or delete call.
C12_IdAloneFetchedFirst ==
    (Ran /\ cmd \in ResolvingCmds /\ IdOnly) =>
        /\ Len(log) >= 1 /\ log[1].op = "get" /\ log[1].arg = GivenId
        /\ ~Exists(pre, GivenId) =>
              /\ res.status = "error" /\ res.err = "notfound"
              /\ \A k \in DOMAIN log : log[k].op \notin WriteOps


\* The command line gave the name flag and nothing else to resolve.
NameFlagOnly(s) ==
    args.name = {s} /\ args.id = None /\ args.ref = None /\ args.toks = << >>

\* C13: a value given through the name flag is used as an exact-name filter
\* only: every record the command reaches has that name, and a record whose
\* id is the integer the value reads as is reached only as the one record of
\* that name, never on account of its id.
C13_NameFlagNeverAnId ==
    Ran => \A s \in Names : NameFlagOnly(s) =>
        \A k \in DOMAIN log :
            /\ log[k].op = "list" => log[k].arg = s
            /\ log[k].op \in RecordOps =>
                  /\ pre[log[k].arg] = s
                  /\ IntOf(s) = {log[k].arg} => UniqueName(s)


\* The command line of a show or set command gave the digits-only positional
\* s and no flag.
DigitPositional(s) ==
    /\ cmd \in ShowCmds \cup SetCmds
    /\ IsDigit(s) /\ args.ref = {s} /\ args.id = None /\ args.name = None

\* C14: a digits-only positional is read as an id by every show and set
\* command: the string is never looked up as a name, only the record with that
\* id is reached, and when no record has that id the command fails with
\* not-found.
C14_DigitPositionalIsId ==
    Ran => \A s \in Names : DigitPositional(s) =>
        /\ \A k \in DOMAIN log :
              /\ log[k].op # "list"
              /\ log[k].op \in RecordOps => {log[k].arg} = IntOf(s)
        /\ res.status \in {"ok", "noop"} => {res.id} = IntOf(s)
        /\ (~Exists(pre, Val(IntOf(s))) /\ res.err # "nochange") =>
              res.status = "error" /\ res.err = "notfound"


\* The command line gave no positional, no --id and no name flag.
NoReference ==
    args.ref = None /\ args.id = None /\ args.name = None /\ args.toks = << >>

\* C15: a show, set or delete command invoked without positional, --id and
\* name flag fails with the missing-reference error and issues no remote call.
C15_MissingReference ==
    (Ran /\ cmd \in ResolvingCmds /\ NoReference) =>
        /\ res.status = "error" /\ res.err = "missing"
        /\ log = << >> /\ db = pre
C15_Witness ==
    /\ Ran /\ cmd = "DeleteTeam" /\ NoReference
    /\ res.err = "missing" /\ \E i \in StoreIds : Exists(pre, i)


\* The command line gave the name flag together with a positional reference.
NameWithPositional == args.name # None /\ (args.ref # None \/ args.toks # << >>)

\* C16: a show, set or delete command given a name flag together with a
\* positional reference fails with the redundant-argument error and issues no
\* remote call, so that nothing is resolved, updated or deleted.
C16_RedundantName ==
    (Ran /\ cmd \in ResolvingCmds /\ NameWithPositional) =>
        /\ res.status = "error" /\ res.err = "redundant"
        /\ log = << >> /\ db = pre


\* The command line of a delete command gave --id or the name flag.
FlagGiven == args.id # None \/ args.name # None
DeleteCallsIssued == {k \in DOMAIN log : log[k].op = "delete"}
\* call k is a resolution step that found no record
ResolutionFailedAt(k) ==
    \/ log[k].op = "get" /\ ~log[k].ok
    \/ log[k].op = "list" /\ (~log[k].ok \/ log[k].count = 0)
\* call j is a resolution step that reached record i
ResolvedAt(j, i) ==
    /\ log[j].ok
    /\ \/ log[j].op = "get" /\ log[j].arg = i
       \/ log[j].op = "list" /\ log[j].arg = pre[i]

\* C17: in a delete command given --id or the name flag, the first resolution
\* error ends the command with an error and without any delete call, and
\* every delete call follows a successful resolution of the id it deletes.
C17_DeleteAfterResolution ==
    (Ran /\ cmd \in DeleteCmds /\ FlagGiven) =>
        /\ res.err \in ResolutionErrors \ {"partial"} => DeleteCallsIssued = {}
        /\ \A k \in DOMAIN log : ResolutionFailedAt(k) =>
              /\ k = Len(log) /\ res.status = "error"
              /\ DeleteCallsIssued = {}
        /\ \A k \in DeleteCallsIssued :
              \E j \in 1..(k - 1) : ResolvedAt(j, log[k].arg)


\* Call k failed although what it asked for was there: the request itself
\* failed. (Nothing is deleted before such a call on the single-resource path.)
TransportFailedAt(k) ==
    /\ ~log[k].ok
    /\ \/ log[k].op = "list"
       \/ log[k].op \in {"get", "update", "delete"} /\ Exists(pre, log[k].arg)
RequestErrors == {"upstream", "delete_failed"}

\* C18: on the single-resource path a remote call that fails at the transport
\* level makes the command fail with the request error: the failure is neither
\* reported as not-found nor swallowed.
C18_TransportFailureSurfaces ==
    (Ran /\ SingleTarget) =>
        \A k \in DOMAIN log : TransportFailedAt(k) =>
            res.status = "error" /\ res.err \in RequestErrors


\* Commands of the organization merger, whose controller calls may fail softly.
MergerCmds ==
    {"ShowOrganization", "ListOrganization", "CreateOrganization", "SetOrganization"}
SomeCallFailed == \E k \in DOMAIN log : ~log[k].ok
ItemFailureReported == \E k \in DOMAIN out : out[k].what # "deleted"

\* C19: outside the organization merger a failed remote call is never turned
\* into a warning or a degraded output: the command fails, or, in a delete
\* over several targets, the target is reported as failed.
C19_OnlyMergerDowngrades ==
    (Ran /\ cmd \notin MergerCmds /\ SomeCallFailed) =>
        \/ res.status = "error"
        \/ cmd \in DeleteCmds /\ ItemFailureReported


\* The command line gave --id and the name flag, and the fetch by that id
\* answered a record of another name.
IdAndNameDisagree ==
    /\ args.id # None /\ args.name # None
    /\ \E k \in DOMAIN log : log[k].op = "get" /\ log[k].arg = GivenId /\ log[k].ok
    /\ pre[GivenId] # Val(args.name)

\* C20: when --id and the name flag are both given and the record fetched by
\* the id has another name, the command fails with the cross-reference
\* mismatch error; the fetched record is neither returned nor deleted.
C20_IdNameMismatch ==
    (Ran /\ cmd \in ResolvingCmds /\ IdAndNameDisagree) =>
        /\ res.status = "error" /\ res.err = "mismatch"
        /\ db[GivenId] = pre[GivenId]
        /\ \A k \in DOMAIN log : log[k].op = "delete" => log[k].arg # GivenId



\* ------------------------------------------------------- claims, C21 to C30
\* C21: a command run with both --id and the name flag is rejected before any
\* remote call: it ends in an error, with nothing fetched and nothing changed.
C21_IdAndNameRejected ==
    (Ran /\ cmd \in ResolvingCmds /\ args.id # None /\ args.name # None) =>
        /\ res.status = "error"
        /\ log = << >> /\ db = pre


\* Whether an option or, failing that, an environment variable supplies a value.
Supplied(opt, env) == opt \notin {None, {""}} \/ env \notin {None, {""}}

\* C22: every request a client has sent, discovery requests included, carries
\* the configured timeout, and that timeout is the default when AAP_TIMEOUT
\* is unset or is not an integer.
C22_EveryRequestTimed ==
    pc = "prepared" =>
        /\ \A s \in DOMAIN sessions : \A i \in DOMAIN sessions[s].sent :
              sessions[s].sent[i].timeout = {config.timeout}
        /\ environ.AAP_TIMEOUT \in {None, {""}, {"abc"}} =>
              config.timeout = DefaultTimeout

\* C23: a client exists or a command is under way only in an invocation whose
\* host and whose credentials (a token, or a username with a password) were
\* supplied by the options or the environment.
C23_ValidatedFirst ==
    (pc # "idle" /\ (pc = "prepared" \/ DOMAIN sessions # {})) =>
        /\ environ.aap_host \notin {None, {<< >>}}
              \/ environ.AAP_HOST \notin {None, {<< >>}}
        /\ \/ Supplied(environ.aap_token, environ.AAP_TOKEN)
           \/ /\ Supplied(environ.aap_username, environ.AAP_USERNAME)
              /\ Supplied(environ.aap_password, environ.AAP_PASSWORD)
C23_Witness ==
    /\ pc = "prepared" /\ DOMAIN sessions = {"controller", "gateway"}
    /\ ~Supplied(environ.aap_token, environ.AAP_TOKEN)
    /\ environ.aap_password # None /\ environ.AAP_USERNAME # None

\* C24: after a successful validate() the host starts with a scheme, does not
\* end in a slash, and a second validate() leaves it as it is.
C24_HostNormalised ==
    pc = "prepared" =>
        LET h == Val(config.host)
        IN  /\ startswith(h)
            /\ h[Len(h)] # "/"
            /\ validate(config).config.host = config.host

\* C30: the two clients built from one configuration verify TLS the same way.
C30_SameTlsSetting ==
    (pc = "prepared" /\ DOMAIN sessions = {"controller", "gateway"}) =>
        sessions["controller"].verify = sessions["gateway"].verify


\* C25: organization set ends with 'No properties specified to update' only
\* when neither service accepted an update call in that invocation.
C25_NoChangeMeansNothingAccepted ==
    (Ran /\ cmd = "SetOrganization" /\ res.err = "nochange") =>
        \A k \in DOMAIN log :
            log[k].op \in {"update", "ctl_update"} => ~log[k].ok


\* The successful get or list response at position j of the log returned the
\* record with id i: it was fetched by that id, or listed by its name while
\* it was still there.
ReturnedBy(j, i) ==
    /\ log[j].ok
    /\ \/ log[j].op = "get" /\ log[j].arg = i
       \/ /\ log[j].op = "list"
          /\ i \in StoreIds /\ pre[i] = log[j].arg
          /\ \A m \in 1..(j - 1) :
                ~(log[m].op = "delete" /\ log[m].ok /\ log[m].arg = i)

\* C26: every delete call of a delete command carries the id of a record that
\* a get or list response returned earlier in the invocation, and there are no
\* more delete calls than positional tokens plus flag-selected targets.
C26_DeleteOnlyFetched ==
    (Ran /\ cmd \in DeleteCmds) =>
        /\ \A k \in DOMAIN log : log[k].op = "delete" =>
              \E j \in 1..(k - 1) : ReturnedBy(j, log[k].arg)
        /\ Cardinality({k \in DOMAIN log : log[k].op = "delete"})
              <= Len(args.toks)
                 + (IF args.id # None \/ args.name # None THEN 1 ELSE 0)

C26_Witness ==
    /\ Ran /\ cmd \in DeleteCmds /\ Len(args.toks) = 2
    /\ Cardinality({k \in DOMAIN log : log[k].op = "delete"}) = 2
    /\ \E j, k \in DOMAIN log :
          /\ j < k /\ log[k].op = "delete"
          /\ log[j].op = "get" /\ log[j].ok /\ log[j].arg = log[k].arg


\* The tokens of the invocation that did not end in an accepted delete call.
FailedTokens == Len(args.toks) - Cardinality({k \in DOMAIN log : log[k].op = "delete" /\ log[k].ok})

\* C27: project and workflow multi-target delete attempt every token, end in
\* their final error exactly when some token failed, and that error counts
\* the failed tokens out of all tokens.
C27_CountedFailures ==
    (MultiDelete(1) /\ cmd \in {"DeleteProject", "DeleteWorkflow"}) =>
        /\ \A k \in DOMAIN args.toks : Attempted(args.toks[k])
        /\ (res.status = "error") <=> (FailedTokens > 0)
        /\ res.status = "error" =>
              /\ res.err = "partial"
              /\ res.errors = FailedTokens /\ res.total = Len(args.toks)
C27_Witness ==
    /\ MultiDelete(3) /\ cmd = "DeleteWorkflow"
    /\ res.status = "error" /\ res.errors = 2 /\ res.total = 3
    /\ \E k \in DOMAIN log : log[k].op = "delete" /\ ~log[k].ok
    /\ log[Len(log)].op = "delete" /\ log[Len(log)].ok


\* C28: resource list returns eight rows in the fixed order, whichever count
\* queries fail: 'Error' in the row of a failed query, and in every other row
\* the count its own query returned.
C28_EightRows ==
    (Ran /\ cmd = "ResourceList") =>
        LET order == <<"Templates", "Projects", "Inventories", "Hosts",
                       "Credentials", "Organizations", "Teams", "Users">>
        IN  /\ res.status = "ok"
            /\ Len(res.view) = 8
            /\ \A k \in 1..8 :
                  /\ res.view[k].kind = order[k]
                  /\ IF order[k] \in down
                     THEN res.view[k].cell = "Error"
                     ELSE /\ res.view[k].cell = "count"
                          /\ res.view[k].count = totals[order[k]]
C28_Witness ==
    /\ Ran /\ cmd = "ResourceList"
    /\ down = {"Templates", "Teams"}
    /\ res.view[1].cell = "Error" /\ res.view[2].cell = "count"
    /\ res.view[8].count = totals["Users"]


\* C29: job cancel sends the cancel request only when the status it fetched is
\* pending, waiting or running; for any other fetched status it says that the
\* job cannot be canceled and sends nothing but the fetch.
C29_CancelOnlyCancelable ==
    (Ran /\ cmd = "CancelJob") =>
        /\ (\E k \in DOMAIN log : log[k].op = "job_cancel") =>
              /\ log[1].op = "job_get" /\ log[1].ok
              /\ job.status \in {"pending", "waiting", "running"}
        /\ (log # << >> /\ log[1].ok
                /\ job.status \notin {"pending", "waiting", "running"}) =>
              /\ res.status = "ok" /\ res.view[1] = "cannot be canceled"
              /\ Len(log) = 1
C29_Witness ==
    /\ Ran /\ cmd = "CancelJob" /\ job.status = "successful"
    /\ log # << >> /\ log[1].ok /\ res.view[1] = "cannot be canceled"

====
